---- MODULE Spec2Model ----
(***************************************************************************)
(* Model of the mdformat-hooks / mdformat-mdsf plugins:                    *)
(*   - the shell hook runner        (src/mdformat_hooks/plugin.py)         *)
(*   - the mdsf settings store      (src/mdformat_mdformat_mdsf/_config.py)*)
(*   - the configuration pass       (src/mdformat_mdformat_mdsf/plugin.py) *)
(*   - the per-block mdsf formatter (src/mdformat_mdsf/_formatter.py)      *)
(*   - the document post-processor  (src/mdformat_hooks/plugin.py)         *)
(*   - the search for mdsf.json     (src/mdformat_mdformat_mdsf/_config.py)*)
(*                                                                         *)
(* A Python string is a sequence of tokens: a character, or a run of       *)
(* characters that the code never looks inside (a word, a path, a literal  *)
(* part of a message).  The code fence marker (three backquotes) is the    *)
(* one token Fence.  Concatenation and f-string interpolation are \o.      *)
(***************************************************************************)
EXTENDS Integers, Sequences, FiniteSets, TLC

VARIABLES
    config,     \* the process-wide MdsfConfig instance (_global_config)
    call,       \* the current call: its arguments, what the external world
                \* answers, and (once done) what it returned or raised
    calls       \* how many calls have completed

vars == <<config, call, calls>>

---------------------------------------------------------------------------
(* Bounds and input alphabets *)

\* longest document text, code block and formatter output, in tokens
MaxTextLen == 2

\* longest sequence of calls on the settings store
MaxCalls == 2

\* deepest working directory below the filesystem root
MaxDepth == 3

\* the fence marker of a Markdown code block (three backquotes), one token
Fence == "<fence>"

Chars == {"x", "\n", Fence}

RECURSIVE SeqsUpTo(_, _)
SeqsUpTo(S, n) ==
    IF n = 0 THEN {<<>>}
    ELSE LET shorter == SeqsUpTo(S, n - 1)
         IN  shorter \cup {Append(s, c) : s \in {t \in shorter : Len(t) = n - 1}, c \in S}

Texts == SeqsUpTo(Chars, MaxTextLen)

---------------------------------------------------------------------------
(* Python values: exceptions, call results *)

\* whether the string `sub` occurs in the string `s` (Python: sub in s)
Contains(s, sub) ==
    \E i \in 1..(Len(s) - Len(sub) + 1) : SubSeq(s, i, i + Len(sub) - 1) = sub

\* str(n) for an integer n
Str(n) == <<ToString(n)>>

NoExc == [type |-> "None", msg |-> <<>>, cause |-> "None"]

Exc(type, msg, cause) == [type |-> type, msg |-> msg, cause |-> cause]

\* issubclass(type, cls) for the exception classes the code meets
IsInstance(exc, cls) ==
    \/ exc.type = cls
    \/ cls = "Exception" /\ exc.type \in {"RuntimeError", "OSError", "ValueError",
                                           "TimeoutExpired", "CalledProcessError"}

\* a call that returned `value`
Return(value, diag, spawns, lookups) ==
    [kind |-> "return", value |-> value, exc |-> NoExc,
     diag |-> diag, spawns |-> spawns, lookups |-> lookups]

\* a call that raised `exc`
Raise(exc, diag, spawns, lookups) ==
    [kind |-> "raise", value |-> <<>>, exc |-> exc,
     diag |-> diag, spawns |-> spawns, lookups |-> lookups]

---------------------------------------------------------------------------
(* The external process, as subprocess.run meets it *)

ExitCodes == {0, 1, 2}

StderrTexts == {<<>>, <<"boom">>}

SpawnError == Exc("OSError", <<"[Errno 8] Exec format error">>, "None")

\* What subprocess.run meets: the process exits (code 0 with some stdout, or a
\* non-zero code with some stderr), runs past the timeout, or cannot be run at
\* all.  stdout of a failed process and stderr of a successful one are never
\* read by the code and are left empty.
ProcessOutcomes(stdouts) ==
    [kind : {"exit"}, code : {0}, stdout : stdouts, stderr : {<<>>}, err : {NoExc}]
    \cup [kind : {"exit"}, code : ExitCodes \ {0}, stdout : {<<>>}, stderr : StderrTexts,
          err : {NoExc}]
    \cup {[kind |-> "timeout", code |-> 0, stdout |-> <<>>, stderr |-> <<>>, err |-> NoExc],
          [kind |-> "error", code |-> 0, stdout |-> <<>>, stderr |-> <<>>, err |-> SpawnError]}

---------------------------------------------------------------------------
(* src/mdformat_hooks/plugin.py: _run_shell_command *)

NoneCommand == [isNone |-> TRUE, s |-> <<>>]

Command(s) == [isNone |-> FALSE, s |-> s]

\* the guard written as `if command is None`: an empty command is run
CommandTruthy_NoneOnly(command) == ~command.isNone

\* Python truthiness of a `str | None` command
CommandTruthy(command) == ~command.isNone /\ command.s # <<>>

\* subprocess.run(command, input=text, shell=True, timeout=timeout, check=False)
ShellSpawn(text, command, timeout) ==
    [argv |-> <<command.s>>, shell |-> TRUE, input |-> text, timeout |-> timeout]

\* f"mdformat-hooks: Command failed with code {result.returncode}: {command}"
CommandFailedDiag(command, outcome) ==
    <<"mdformat-hooks: Command failed with code ">> \o Str(outcome.code) \o <<": ">>
        \o command.s

\* f"Error output: {result.stderr}", printed only when stderr is not empty
ErrorOutputDiag(outcome) ==
    IF outcome.stderr # <<>> THEN <<<<"Error output: ">> \o outcome.stderr>> ELSE <<>>

\* RuntimeError(f"Command failed with exit code {rc}: {command}\nstderr: {stderr}")
CommandFailedError(command, outcome) ==
    Exc("RuntimeError",
        <<"Command failed with exit code ">> \o Str(outcome.code) \o <<": ">>
            \o command.s \o <<"\n", "stderr: ">> \o outcome.stderr,
        "None")

\* f"mdformat-hooks: Command timed out after {timeout} seconds: {command}"
TimeoutMsg(command, timeout) ==
    <<"mdformat-hooks: Command timed out after ">> \o Str(timeout)
        \o <<" seconds: ">> \o command.s

\* f"mdformat-hooks: Error running command: {e}"
ErrorRunningDiag(e) == <<"mdformat-hooks: Error running command: ">> \o e.msg

\* the success branch written as `return result.stdout or text`
ShellSuccess_FallbackOnEmpty(text, outcome, spawns) ==
    Return(IF outcome.stdout = <<>> THEN text ELSE outcome.stdout, <<>>, spawns, 0)

\* if result.returncode == 0: return result.stdout
ShellSuccess(text, outcome, spawns) == Return(outcome.stdout, <<>>, spawns, 0)

\* a non-zero return code: the diagnostics, then raise (strict) or leave the try
\* statement for the final `return text` ("fall")
ShellNonZero(text, command, strict, outcome, spawns) ==
    LET diag == <<CommandFailedDiag(command, outcome)>> \o ErrorOutputDiag(outcome)
    IN  IF strict
        THEN Raise(CommandFailedError(command, outcome), diag, spawns, 0)
        ELSE [Return(text, diag, spawns, 0) EXCEPT !.kind = "fall"]

\* The body of the try statement: what it returns, raises or falls out of
ShellTryBody(text, command, timeout, strict, outcome) ==
    LET spawns == <<ShellSpawn(text, command, timeout)>> IN
    CASE outcome.kind = "timeout" ->
            Raise(Exc("TimeoutExpired", <<"timed out">>, "None"), <<>>, spawns, 0)
      [] outcome.kind = "error" ->
            Raise(outcome.err, <<>>, spawns, 0)
      [] outcome.kind = "exit" /\ outcome.code = 0 ->
            ShellSuccess(text, outcome, spawns)
      [] outcome.kind = "exit" /\ outcome.code # 0 ->
            ShellNonZero(text, command, strict, outcome, spawns)

\* the timeout handler without its `if strict: raise`
ShellTimeoutHandler_NoRaise(text, command, timeout, strict, tried) ==
    Return(text, Append(tried.diag, TimeoutMsg(command, timeout)), tried.spawns, 0)

\* the timeout handler that runs the command a second time before giving up
ShellTimeoutHandler_Retry(text, command, timeout, strict, tried) ==
    LET diag == Append(tried.diag, TimeoutMsg(command, timeout))
        spawns == Append(tried.spawns, ShellSpawn(text, command, timeout))
    IN  IF strict
        THEN Raise(Exc("RuntimeError", TimeoutMsg(command, timeout), "TimeoutExpired"),
                   diag, spawns, 0)
        ELSE Return(text, diag, spawns, 0)

\* except subprocess.TimeoutExpired as e
ShellTimeoutHandler(text, command, timeout, strict, tried) ==
    LET diag == Append(tried.diag, TimeoutMsg(command, timeout)) IN
    IF strict
    THEN Raise(Exc("RuntimeError", TimeoutMsg(command, timeout), "TimeoutExpired"),
               diag, tried.spawns, 0)
    ELSE Return(text, diag, tried.spawns, 0)

\* the generic handler without its `if strict: raise`
ShellExceptionHandler_Swallow(text, strict, tried) ==
    Return(text, Append(tried.diag, ErrorRunningDiag(tried.exc)), tried.spawns, 0)

\* the generic handler raising RuntimeError(error_msg) from e in place of `raise`
ShellExceptionHandler_Wrap(text, strict, tried) ==
    LET diag == Append(tried.diag, ErrorRunningDiag(tried.exc)) IN
    IF strict
    THEN Raise(Exc("RuntimeError", ErrorRunningDiag(tried.exc), tried.exc.type),
               diag, tried.spawns, 0)
    ELSE Return(text, diag, tried.spawns, 0)

\* except Exception as e
ShellExceptionHandler(text, strict, tried) ==
    LET diag == Append(tried.diag, ErrorRunningDiag(tried.exc)) IN
    IF strict
    THEN Raise(tried.exc, diag, tried.spawns, 0)
    ELSE Return(text, diag, tried.spawns, 0)

_run_shell_command(text, command, timeout, strict, outcome) ==
    IF ~CommandTruthy(command)
    THEN Return(text, <<>>, <<>>, 0)
    ELSE LET tried == ShellTryBody(text, command, timeout, strict, outcome) IN
         IF tried.kind = "return" THEN tried
         ELSE IF tried.kind = "fall" THEN [tried EXCEPT !.kind = "return"]
         ELSE IF IsInstance(tried.exc, "TimeoutExpired")
              THEN ShellTimeoutHandler(text, command, timeout, strict, tried)
         ELSE IF IsInstance(tried.exc, "Exception")
              THEN ShellExceptionHandler(text, strict, tried)
         ELSE tried

---------------------------------------------------------------------------
(* Python option values: None, bool, int, str, list of str *)

PyNone == [t |-> "none", i |-> 0, s |-> <<>>, l |-> <<>>]

PyBool(b) == [t |-> "bool", i |-> IF b THEN 1 ELSE 0, s |-> <<>>, l |-> <<>>]

PyInt(n) == [t |-> "int", i |-> n, s |-> <<>>, l |-> <<>>]

PyStr(s) == [t |-> "str", i |-> 0, s |-> s, l |-> <<>>]

PyList(l) == [t |-> "list", i |-> 0, s |-> <<>>, l |-> l]

\* bool(v): the truth value Python gives v in `if v` and `v or default`
Truthy(v) ==
    CASE v.t = "none" -> FALSE
      [] v.t \in {"bool", "int"} -> v.i # 0
      [] v.t = "str" -> v.s # <<>>
      [] v.t = "list" -> v.l # <<>>

Whitespace == {" ", "\n", "\t"}

Digits == {"0", "1", "2", "3", "4", "5", "6", "7", "8", "9"}

DigitValue(d) ==
    CASE d = "0" -> 0 [] d = "1" -> 1 [] d = "2" -> 2 [] d = "3" -> 3 [] d = "4" -> 4
      [] d = "5" -> 5 [] d = "6" -> 6 [] d = "7" -> 7 [] d = "8" -> 8 [] d = "9" -> 9

\* str.strip(): leading and trailing whitespace removed
RECURSIVE LStrip(_)
LStrip(s) == IF s # <<>> /\ Head(s) \in Whitespace THEN LStrip(Tail(s)) ELSE s

RECURSIVE RStrip(_)
RStrip(s) ==
    IF s # <<>> /\ s[Len(s)] \in Whitespace THEN RStrip(SubSeq(s, 1, Len(s) - 1)) ELSE s

Strip(s) == RStrip(LStrip(s))

RECURSIVE DigitsValue(_)
DigitsValue(ds) ==
    IF ds = <<>> THEN 0
    ELSE 10 * DigitsValue(SubSeq(ds, 1, Len(ds) - 1)) + DigitValue(ds[Len(ds)])

\* int(v): [ok, v] or the exception it raises
PyIntOf(v) ==
    CASE v.t \in {"int", "bool"} -> [ok |-> TRUE, v |-> v.i, exc |-> "None"]
      [] v.t = "str" ->
            LET body == Strip(v.s)
                signed == body # <<>> /\ Head(body) \in {"-", "+"}
                ds == IF signed THEN Tail(body) ELSE body
            IN  IF ds # <<>> /\ \A k \in 1..Len(ds) : ds[k] \in Digits
                THEN [ok |-> TRUE,
                      v |-> IF signed /\ Head(body) = "-" THEN 0 - DigitsValue(ds)
                            ELSE DigitsValue(ds),
                      exc |-> "None"]
                ELSE [ok |-> FALSE, v |-> 0, exc |-> "ValueError"]
      [] OTHER -> [ok |-> FALSE, v |-> 0, exc |-> "TypeError"]

\* str.split(","): the pieces between the commas, in order
RECURSIVE Split(_, _)
Split(s, sep) ==
    IF \A k \in 1..Len(s) : s[k] # sep THEN <<s>>
    ELSE LET k == CHOOSE j \in 1..Len(s) : s[j] = sep /\ \A m \in 1..(j - 1) : s[m] # sep
         IN  <<SubSeq(s, 1, k - 1)>> \o Split(SubSeq(s, k + 1, Len(s)), sep)

Range(f) == {f[k] : k \in DOMAIN f}

\* set(v) for str (its characters) and list (its elements)
PySetOf(v) ==
    CASE v.t = "list" -> [ok |-> TRUE, v |-> Range(v.l)]
      [] v.t = "str" -> [ok |-> TRUE, v |-> {<<c>> : c \in Range(v.s)}]
      [] OTHER -> [ok |-> FALSE, v |-> {}]

---------------------------------------------------------------------------
(* src/mdformat_hooks/plugin.py: the document post-processor *)

\* the identifier of the hooks plugin under options["mdformat"]["plugin"]
HooksPluginName == "hooks"

HookDefaultTimeout == 30

\* One level of hook option keys; a key that is absent reads as None.
NoHookSection == [post_command |-> PyNone, pre_command |-> PyNone, timeout |-> PyNone,
                  strict_hooks |-> PyNone]

NoHookPlugin == [id |-> "", sec |-> NoHookSection]

\* get_conf(options, key): the API-level value unless it is None, else the
\* value of the plugin's own section
get_conf(options, key) ==
    LET api == IF options.hasMdformat THEN options.api[key] ELSE PyNone
        cli_or_toml == IF options.hasMdformat /\ options.plugin.id = HooksPluginName
                       THEN options.plugin.sec[key] ELSE PyNone
    IN  IF api.t # "none" THEN api ELSE cli_or_toml

\* str(v)
PyStrOf(v) ==
    CASE v.t = "str" -> v.s
      [] v.t = "int" -> Str(v.i)
      [] v.t = "bool" -> IF v.i = 1 THEN <<"True">> ELSE <<"False">>
      [] v.t = "none" -> <<"None">>
      [] v.t = "list" -> <<"[...]">>

NoProcessor == [isNone |-> TRUE, command |-> PyNone, timeout |-> PyNone,
                strict |-> PyNone]

\* the post processor that also takes its command from the pre_command key
_create_post_processor_PreCommand(options) ==
    IF ~options.hasMdformat THEN NoProcessor
    ELSE LET post == get_conf(options, "post_command")
             pre == get_conf(options, "pre_command")
             post_command == IF Truthy(post) THEN post ELSE pre
             conf_timeout == get_conf(options, "timeout")
             timeout == IF Truthy(conf_timeout) THEN conf_timeout
                        ELSE PyInt(HookDefaultTimeout)
             conf_strict == get_conf(options, "strict_hooks")
             strict == IF Truthy(conf_strict) THEN conf_strict ELSE PyBool(FALSE)
         IN  IF Truthy(post_command)
             THEN [isNone |-> FALSE, command |-> post_command, timeout |-> timeout,
                   strict |-> strict]
             ELSE NoProcessor

\* _create_post_processor: the closure over post_command, timeout and strict,
\* or None
_create_post_processor(options) ==
    IF ~options.hasMdformat THEN NoProcessor
    ELSE LET post_command == get_conf(options, "post_command")
             conf_timeout == get_conf(options, "timeout")
             timeout == IF Truthy(conf_timeout) THEN conf_timeout
                        ELSE PyInt(HookDefaultTimeout)
             conf_strict == get_conf(options, "strict_hooks")
             strict == IF Truthy(conf_strict) THEN conf_strict ELSE PyBool(FALSE)
         IN  IF Truthy(post_command)
             THEN [isNone |-> FALSE, command |-> post_command, timeout |-> timeout,
                   strict |-> strict]
             ELSE NoProcessor

\* processor(text, _node, _context): int(timeout) is evaluated with the
\* arguments of the call, before _run_shell_command is entered
Processor(processor, text, outcome) ==
    LET timeout == PyIntOf(processor.timeout) IN
    IF ~timeout.ok
    THEN Raise(Exc(timeout.exc, <<"invalid literal for int()">>, "None"), <<>>, <<>>, 0)
    ELSE _run_shell_command(text, Command(PyStrOf(processor.command)), timeout.v,
                            Truthy(processor.strict), outcome)

\* the post-processor that does not look at the type of the node
_dynamic_postprocessor_AnyNode(text, node, options, outcome) ==
    LET processor == _create_post_processor(options) IN
    IF ~processor.isNone THEN Processor(processor, text, outcome)
    ELSE Return(text, <<>>, <<>>, 0)

\* _dynamic_postprocessor(text, node, context), node.type and context.options
_dynamic_postprocessor(text, node, options, outcome) ==
    IF node # "document" THEN Return(text, <<>>, <<>>, 0)
    ELSE LET processor == _create_post_processor(options) IN
         IF ~processor.isNone THEN Processor(processor, text, outcome)
         ELSE Return(text, <<>>, <<>>, 0)

---------------------------------------------------------------------------
(* src/mdformat_mdformat_mdsf/_config.py: MdsfConfig *)

DefaultTimeout == 30

\* MdsfConfig.__init__
DefaultConfig ==
    [config_path |-> PyNone, timeout |-> DefaultTimeout, languages |-> {},
     fail_on_error |-> FALSE]

\* One level of option keys; a key that is absent reads as None (dict.get).
NoSection == [config |-> PyNone, timeout |-> PyNone, languages |-> PyNone,
              fail_on_error |-> PyNone]

\* options["mdformat"]["plugin"][id], whose keys are prefix + config, timeout, ...
NoPlugin == [id |-> "", prefix |-> "", sec |-> NoSection]

\* options.get("mdformat", {}).get("plugin", {}).get(id, {}): the section's keys
\* read as given only under the identifier and key names the code asks for
PluginOpts(options, id, prefix) ==
    IF options.plugin.id = id /\ options.plugin.prefix = prefix
    THEN options.plugin.sec ELSE NoSection

\* the statements of update_from_options in order; the first exception ends them
ApiConfigStep(c, api) ==
    IF Truthy(api.config) THEN [c EXCEPT !.config_path = api.config] ELSE c

ApiTimeoutStep(c, api) ==
    IF Truthy(api.timeout) THEN [c EXCEPT !.timeout = PyIntOf(api.timeout).v] ELSE c

ApiLanguagesStep(c, api) ==
    IF Truthy(api.languages) THEN [c EXCEPT !.languages = PySetOf(api.languages).v] ELSE c

\* the flag assigned whenever the key is present, a False included
ApiFailStep_Assign(c, api) ==
    IF api.fail_on_error.t # "none"
    THEN [c EXCEPT !.fail_on_error = Truthy(api.fail_on_error)] ELSE c

ApiFailStep(c, api) ==
    IF Truthy(api.fail_on_error) THEN [c EXCEPT !.fail_on_error = TRUE] ELSE c

PluginConfigStep(c, po) ==
    IF Truthy(po.config) THEN [c EXCEPT !.config_path = po.config] ELSE c

PluginTimeoutStep(c, po) ==
    IF Truthy(po.timeout) THEN [c EXCEPT !.timeout = PyIntOf(po.timeout).v] ELSE c

\* the comma-separated items taken as they are, not trimmed
PluginLanguagesStep_NoStrip(c, po) ==
    IF ~Truthy(po.languages) THEN c
    ELSE IF po.languages.t = "str"
         THEN [c EXCEPT !.languages = Range(Split(po.languages.s, ","))]
         ELSE [c EXCEPT !.languages = PySetOf(po.languages).v]

PluginLanguagesStep(c, po) ==
    IF ~Truthy(po.languages) THEN c
    ELSE IF po.languages.t = "str"
         THEN [c EXCEPT !.languages = {Strip(lang) : lang \in Range(Split(po.languages.s, ","))}]
         ELSE [c EXCEPT !.languages = PySetOf(po.languages).v]

PluginFailStep(c, po) ==
    IF Truthy(po.fail_on_error) THEN [c EXCEPT !.fail_on_error = TRUE] ELSE c

\* MdsfConfig.update_from_options: the store afterwards and the exception, if any
update_from_options(c, options) ==
    LET api == options.api
        po == PluginOpts(options, "mdsf", "")
        c1 == ApiConfigStep(c, api)
        c2 == ApiTimeoutStep(c1, api)
        c3 == ApiLanguagesStep(c2, api)
        c4 == ApiFailStep(c3, api)
        c5 == PluginConfigStep(c4, po)
        c6 == PluginTimeoutStep(c5, po)
        c7 == PluginLanguagesStep(c6, po)
        c8 == PluginFailStep(c7, po)
    IN  IF Truthy(api.timeout) /\ ~PyIntOf(api.timeout).ok
        THEN [cfg |-> c1, exc |-> PyIntOf(api.timeout).exc]
        ELSE IF Truthy(api.languages) /\ ~PySetOf(api.languages).ok
        THEN [cfg |-> c2, exc |-> "TypeError"]
        ELSE IF Truthy(po.timeout) /\ ~PyIntOf(po.timeout).ok
        THEN [cfg |-> c5, exc |-> PyIntOf(po.timeout).exc]
        ELSE IF Truthy(po.languages) /\ po.languages.t # "str" /\ ~PySetOf(po.languages).ok
        THEN [cfg |-> c6, exc |-> "TypeError"]
        ELSE [cfg |-> c8, exc |-> "None"]

\* os.environ: MDSF_CONFIG and MDSF_TIMEOUT, None when unset
NoEnviron == [MDSF_CONFIG |-> PyNone, MDSF_TIMEOUT |-> PyNone]

EnvConfigStep(c, environ) ==
    IF Truthy(environ.MDSF_CONFIG) THEN [c EXCEPT !.config_path = environ.MDSF_CONFIG]
    ELSE c

\* a value that is no integer puts the timeout back to its default
EnvTimeoutStep_ResetOnError(c, environ) ==
    IF ~Truthy(environ.MDSF_TIMEOUT) THEN c
    ELSE IF PyIntOf(environ.MDSF_TIMEOUT).ok
    THEN [c EXCEPT !.timeout = PyIntOf(environ.MDSF_TIMEOUT).v]
    ELSE [c EXCEPT !.timeout = DefaultTimeout]

\* with contextlib.suppress(ValueError): self._timeout = int(timeout)
EnvTimeoutStep(c, environ) ==
    IF Truthy(environ.MDSF_TIMEOUT) /\ PyIntOf(environ.MDSF_TIMEOUT).ok
    THEN [c EXCEPT !.timeout = PyIntOf(environ.MDSF_TIMEOUT).v]
    ELSE c

\* MdsfConfig.update_from_env
update_from_env(c, environ) ==
    [cfg |-> EnvTimeoutStep(EnvConfigStep(c, environ), environ), exc |-> "None"]

\* MdsfConfig.is_language_enabled
is_language_enabled(c, language) ==
    IF c.languages = {} THEN TRUE ELSE language \in c.languages

---------------------------------------------------------------------------
(* src/mdformat_mdformat_mdsf/_config.py: find_mdsf_config *)

\* A directory on the chain from the root to the working directory is its
\* depth: the root is 0, and the parent of the root is the root itself.
Depths == 0..MaxDepth

Parent(current) == IF current = 0 THEN 0 ELSE current - 1

NoPath == [isNone |-> TRUE, dir |-> 0]

\* current / "mdsf.json"
PathOf(current) == [isNone |-> FALSE, dir |-> current]

---------------------------------------------------------------------------
(* src/mdformat_mdformat_mdsf/plugin.py: _setup_from_options *)

\* the flat keys mdsf_config, mdsf_timeout, mdsf_languages, mdsf_fail_on_error
CliStep(c, flat) ==
    LET c1 == IF Truthy(flat.config) /\ flat.config.t = "str"
              THEN [c EXCEPT !.config_path = flat.config] ELSE c
        c2 == IF Truthy(flat.timeout) /\ flat.timeout.t \in {"int", "bool"}
              THEN [c1 EXCEPT !.timeout = flat.timeout.i] ELSE c1
        c3 == IF Truthy(flat.languages) /\ flat.languages.t = "str"
              THEN [c2 EXCEPT !.languages =
                        {Strip(lang) : lang \in Range(Split(flat.languages.s, ","))}]
              ELSE c2
        c4 == IF Truthy(flat.fail_on_error) /\ flat.fail_on_error.t = "bool"
              THEN [c3 EXCEPT !.fail_on_error = TRUE] ELSE c3
    IN  c4

_setup_from_options(c, options, environ) ==
    LET fromOptions == update_from_options(CliStep(c, options.flat), options)
    IN  IF fromOptions.exc # "None" THEN fromOptions
        ELSE update_from_env(fromOptions.cfg, environ)

---------------------------------------------------------------------------
(* src/mdformat_mdsf/_formatter.py: the per-block formatter *)

MdsfPath == PyStr(<<"/usr/bin/mdsf">>)

\* _find_mdsf_bin, given what shutil.which("mdsf") returns
_find_mdsf_bin(which) ==
    IF which.t = "none"
    THEN Raise(Exc("RuntimeError",
                   <<"mdsf is not installed. Install it from https://github.com/hougesen/mdsf">>,
                   "None"), <<>>, <<>>, 1)
    ELSE Return(which.s, <<>>, <<>>, 1)

\* f"(fence){language}\n{unformatted}\n(fence)\n"
MarkdownInput(unformatted, language) ==
    <<Fence>> \o language \o <<"\n">> \o unformatted \o <<"\n", Fence, "\n">>

\* the command built without the `if config.config_path` extension
MdsfCmd_NoConfig(c, mdsf_bin) == <<mdsf_bin, <<"format">>, <<"--stdin">>>>

\* cmd: [mdsf_bin, "format", "--stdin"] and, with a config path, "--config" PATH
MdsfCmd(c, mdsf_bin) ==
    <<mdsf_bin, <<"format">>, <<"--stdin">>>>
        \o (IF Truthy(c.config_path) THEN <<<<"--config">>, c.config_path.s>> ELSE <<>>)

MdsfSpawn(c, mdsf_bin, unformatted, language) ==
    [argv |-> MdsfCmd(c, mdsf_bin), shell |-> FALSE,
     input |-> MarkdownInput(unformatted, language), timeout |-> c.timeout]

\* "\n".join(lines)
RECURSIVE Join(_, _)
Join(lines, sep) ==
    IF lines = <<>> THEN <<>>
    ELSE IF Len(lines) = 1 THEN lines[1]
    ELSE lines[1] \o <<sep>> \o Join(Tail(lines), sep)

StartsWithFence(line) == line # <<>> /\ Head(line) = Fence

EndsWithNewline(s) == s # <<>> /\ s[Len(s)] = "\n"

\* the fences taken off the output as the process wrote it, not stripped first
ExtractCode_NoStrip(unformatted, stdout) ==
    LET lines0 == Split(stdout, "\n")
        lines1 == IF lines0 # <<>> /\ StartsWithFence(lines0[1]) THEN Tail(lines0)
                  ELSE lines0
        lines2 == IF lines1 # <<>> /\ StartsWithFence(lines1[Len(lines1)])
                  THEN SubSeq(lines1, 1, Len(lines1) - 1) ELSE lines1
        formatted_code == Join(lines2, "\n")
    IN  IF EndsWithNewline(unformatted) /\ ~EndsWithNewline(formatted_code)
        THEN formatted_code \o <<"\n">> ELSE formatted_code

\* the fences taken off, the trailing newline of the original not restored
ExtractCode_NoNewlineFix(unformatted, stdout) ==
    LET lines0 == Split(Strip(stdout), "\n")
        lines1 == IF lines0 # <<>> /\ StartsWithFence(lines0[1]) THEN Tail(lines0)
                  ELSE lines0
        lines2 == IF lines1 # <<>> /\ StartsWithFence(lines1[Len(lines1)])
                  THEN SubSeq(lines1, 1, Len(lines1) - 1) ELSE lines1
    IN  Join(lines2, "\n")

\* the opening fence taken off, the closing fence left in the code
ExtractCode_KeepClosingFence(unformatted, stdout) ==
    LET lines0 == Split(Strip(stdout), "\n")
        lines1 == IF lines0 # <<>> /\ StartsWithFence(lines0[1]) THEN Tail(lines0)
                  ELSE lines0
        formatted_code == Join(lines1, "\n")
    IN  IF EndsWithNewline(unformatted) /\ ~EndsWithNewline(formatted_code)
        THEN formatted_code \o <<"\n">> ELSE formatted_code

\* the else branch of the try statement: the fences are taken off the output
ExtractCode(unformatted, stdout) ==
    LET lines0 == Split(Strip(stdout), "\n")
        lines1 == IF lines0 # <<>> /\ StartsWithFence(lines0[1]) THEN Tail(lines0)
                  ELSE lines0
        lines2 == IF lines1 # <<>> /\ StartsWithFence(lines1[Len(lines1)])
                  THEN SubSeq(lines1, 1, Len(lines1) - 1) ELSE lines1
        formatted_code == Join(lines2, "\n")
    IN  IF EndsWithNewline(unformatted) /\ ~EndsWithNewline(formatted_code)
        THEN formatted_code \o <<"\n">> ELSE formatted_code

\* except subprocess.CalledProcessError as e
MdsfFailedHandler(c, unformatted, language, outcome, spawns) ==
    IF c.fail_on_error
    THEN Raise(Exc("RuntimeError",
                   <<"mdsf failed for ">> \o language \o <<": ">> \o outcome.stderr,
                   "CalledProcessError"), <<>>, spawns, 1)
    ELSE Return(unformatted, <<>>, spawns, 1)

\* the timeout handler of the formatter that knows no fail_on_error flag
MdsfTimeoutHandler_IgnoreFlag(c, unformatted, language, spawns) ==
    Return(unformatted, <<>>, spawns, 1)

\* except subprocess.TimeoutExpired as e
MdsfTimeoutHandler(c, unformatted, language, spawns) ==
    IF c.fail_on_error
    THEN Raise(Exc("RuntimeError",
                   <<"mdsf timed out for ">> \o language \o <<" after ">>
                       \o Str(c.timeout) \o <<"s">>,
                   "TimeoutExpired"), <<>>, spawns, 1)
    ELSE Return(unformatted, <<>>, spawns, 1)

\* subprocess.run(cmd, check=True, ...) and the handlers around it
MdsfRun(c, mdsf_bin, unformatted, language, outcome) ==
    LET spawns == <<MdsfSpawn(c, mdsf_bin, unformatted, language)>> IN
    CASE outcome.kind = "exit" /\ outcome.code = 0 ->
            Return(ExtractCode(unformatted, outcome.stdout), <<>>, spawns, 1)
      [] outcome.kind = "exit" /\ outcome.code # 0 ->
            MdsfFailedHandler(c, unformatted, language, outcome, spawns)
      [] outcome.kind = "timeout" ->
            MdsfTimeoutHandler(c, unformatted, language, spawns)
      [] outcome.kind = "error" ->
            Raise(outcome.err, <<>>, spawns, 1)

\* except RuntimeError around _find_mdsf_bin()
MdsfMissingHandler(c, unformatted, found) ==
    IF c.fail_on_error THEN found ELSE Return(unformatted, <<>>, <<>>, 1)

\* the binary looked up before the language filter is asked
_format_code_with_mdsf_LookupFirst(c, unformatted, language, which, outcome) ==
    IF unformatted = <<>> THEN Return(unformatted, <<>>, <<>>, 0)
    ELSE LET found == _find_mdsf_bin(which) IN
         IF found.kind = "raise" THEN MdsfMissingHandler(c, unformatted, found)
         ELSE IF ~is_language_enabled(c, language) THEN Return(unformatted, <<>>, <<>>, 1)
         ELSE MdsfRun(c, found.value, unformatted, language, outcome)

\* the formatter without its `if not unformatted` guard
_format_code_with_mdsf_NoEmptyCheck(c, unformatted, language, which, outcome) ==
    IF ~is_language_enabled(c, language) THEN Return(unformatted, <<>>, <<>>, 0)
    ELSE LET found == _find_mdsf_bin(which) IN
         IF found.kind = "raise" THEN MdsfMissingHandler(c, unformatted, found)
         ELSE MdsfRun(c, found.value, unformatted, language, outcome)

_format_code_with_mdsf(c, unformatted, language, which, outcome) ==
    IF unformatted = <<>> THEN Return(unformatted, <<>>, <<>>, 0)
    ELSE IF ~is_language_enabled(c, language) THEN Return(unformatted, <<>>, <<>>, 0)
    ELSE LET found == _find_mdsf_bin(which) IN
         IF found.kind = "raise" THEN MdsfMissingHandler(c, unformatted, found)
         ELSE MdsfRun(c, found.value, unformatted, language, outcome)

\* src/mdformat_mdformat_mdsf/_formatter.py: the _format_code_with_mdsf that
\* knows no settings store: the lookup of the binary is not guarded, the
\* timeout is 30, both handlers return the code as it was
mdformat_mdformat_mdsf_format_code_with_mdsf(unformatted, language, which, outcome) ==
    IF unformatted = <<>> THEN Return(unformatted, <<>>, <<>>, 0)
    ELSE LET found == _find_mdsf_bin(which)
             spawns == <<[argv |-> <<found.value, <<"format">>, <<"--stdin">>>>,
                          shell |-> FALSE,
                          input |-> MarkdownInput(unformatted, language),
                          timeout |-> 30]>>
         IN  IF found.kind = "raise" THEN found
             ELSE CASE outcome.kind = "exit" /\ outcome.code = 0 ->
                          Return(ExtractCode(unformatted, outcome.stdout), <<>>, spawns, 1)
                    [] outcome.kind = "exit" /\ outcome.code # 0 ->
                          Return(unformatted, <<>>, spawns, 1)
                    [] outcome.kind = "timeout" ->
                          Return(unformatted, <<>>, spawns, 1)
                    [] outcome.kind = "error" ->
                          Raise(outcome.err, <<>>, spawns, 1)

\* format_{lang}(unformatted, _info_str), made by _make_formatter(lang): the
\* block and the language reach the formatter, the options of the run do not
formatter(c, lang, unformatted, which, outcome) ==
    _format_code_with_mdsf(c, unformatted, lang, which, outcome)

\* update_mdit(mdit) of the mdsf plugin: the parser and the store are left alone
update_mdit(c, mdit) == c

---------------------------------------------------------------------------
(* Inputs *)

Commands == {NoneCommand, Command(<<>>), Command(<<"cat">>), Command(<<"false">>)}

HookTimeouts == {5, 30}

Languages == {<<"python">>, <<"javascript">>}

WhichResults == {PyNone, MdsfPath}

ApiSection ==
    [config |-> PyStr(<<"/path/to/config.json">>), timeout |-> PyInt(60),
     languages |-> PyList(<<<<"python">>, <<"javascript">>>>),
     fail_on_error |-> PyBool(TRUE)]

PluginSection ==
    [config |-> PyStr(<<"/path/to/plugin.json">>), timeout |-> PyInt(45),
     languages |-> PyList(<<<<"rust">>, <<"go">>>>), fail_on_error |-> PyBool(TRUE)]

CliSection ==
    [config |-> PyStr(<<"/cli.json">>), timeout |-> PyInt(20),
     languages |-> PyStr(<<"python", ",", "go">>), fail_on_error |-> PyBool(TRUE)]

\* a timeout that is no integer, and one that is negative
BadTimeout == PyStr(<<"abc">>)

NegativeTimeout == PyInt(0 - 5)

\* every key present with a falsy value: "", 0, [] and False
FalsySection ==
    [config |-> PyStr(<<>>), timeout |-> PyInt(0), languages |-> PyList(<<>>),
     fail_on_error |-> PyBool(FALSE)]

ApiSections ==
    {NoSection, ApiSection, [NoSection EXCEPT !.timeout = PyInt(60)],
     [NoSection EXCEPT !.timeout = BadTimeout],
     [NoSection EXCEPT !.timeout = NegativeTimeout],
     FalsySection}

Plugins ==
    {NoPlugin,
     [id |-> "mdsf", prefix |-> "", sec |-> PluginSection],
     [id |-> "mdsf", prefix |-> "",
      sec |-> [NoSection EXCEPT
                 !.languages = PyStr(<<"python", ",", " ", "javascript", ",", " ", "rust">>)]],
     [id |-> "mdformat_mdsf", prefix |-> "mdsf_", sec |-> PluginSection],
     [id |-> "mdsf", prefix |-> "", sec |-> [NoSection EXCEPT !.timeout = BadTimeout]],
     [id |-> "mdsf", prefix |-> "", sec |-> FalsySection]}

FlatSections == {NoSection, CliSection, FalsySection}

NoOptions == [hasMdformat |-> FALSE, flat |-> NoSection, api |-> NoSection,
              plugin |-> NoPlugin]

\* every API section with every plugin section, and the flat keys of the
\* command line alone or on top of the sections of the tests
OptionSets ==
    [hasMdformat : {TRUE}, flat : {NoSection}, api : ApiSections, plugin : Plugins]
    \cup [hasMdformat : {TRUE}, flat : FlatSections, api : {NoSection, ApiSection},
          plugin : {NoPlugin, [id |-> "mdsf", prefix |-> "", sec |-> PluginSection]}]
    \cup {NoOptions}

Environs ==
    {NoEnviron,
     [MDSF_CONFIG |-> PyStr(<<"/env/config.json">>), MDSF_TIMEOUT |-> PyStr(<<"1", "0">>)],
     [MDSF_CONFIG |-> PyNone, MDSF_TIMEOUT |-> PyStr(<<"invalid">>)],
     [MDSF_CONFIG |-> PyNone, MDSF_TIMEOUT |-> PyStr(<<"0">>)]}

\* the options of a formatting run of the mdsf plugin: every subset of the
\* API-level keys
RunOptions ==
    [hasMdformat : {TRUE}, flat : {NoSection}, plugin : {NoPlugin},
     api : [config : {PyNone, ApiSection.config},
            timeout : {PyNone, PyInt(5)},
            languages : {PyNone, PyList(<<<<"python">>>>)},
            fail_on_error : {PyNone, PyBool(TRUE)}]]

\* the settings store as a resolution pass on the defaults leaves it
ResolvedConfigs ==
    {_setup_from_options(DefaultConfig, options, NoEnviron).cfg : options \in RunOptions}

NoResult == [kind |-> "none", value |-> <<>>, exc |-> NoExc, diag |-> <<>>,
             spawns |-> <<>>, lookups |-> 0]

\* the calls of _run_shell_command, each with the outcome its process will have
ShellCalls ==
    [op : {"_run_shell_command"}, state : {"pending"}, text : Texts,
     command : Commands, timeout : HookTimeouts, strict : BOOLEAN,
     outcome : ProcessOutcomes(Texts), res : {NoResult}]

\* the calls of _format_code_with_mdsf, each with what the PATH search and the
\* formatter process will answer; the formatter may echo its input
FormatCalls ==
    UNION {[op : {"_format_code_with_mdsf"}, state : {"pending"}, unformatted : {u},
            language : {lang}, which : WhichResults,
            outcome : ProcessOutcomes(Texts \cup {MarkdownInput(u, lang)}),
            res : {NoResult}] : u \in Texts, lang \in Languages}

\* node.type of the nodes the host hands to a post-processor
NodeTypes == {"document", "paragraph"}

HookApiSections ==
    {NoHookSection,
     [NoHookSection EXCEPT !.post_command = PyStr(<<"cat">>), !.timeout = PyInt(5),
                           !.strict_hooks = PyBool(TRUE)],
     [NoHookSection EXCEPT !.post_command = PyStr(<<>>)],
     [NoHookSection EXCEPT !.pre_command = PyStr(<<"sed">>)],
     [NoHookSection EXCEPT !.pre_command = PyStr(<<"sed">>),
                           !.post_command = PyStr(<<"cat">>)],
     [NoHookSection EXCEPT !.post_command = PyStr(<<"cat">>),
                           !.timeout = NegativeTimeout],
     [NoHookSection EXCEPT !.post_command = PyStr(<<"cat">>), !.timeout = PyInt(0),
                           !.strict_hooks = PyBool(FALSE)]}

HookPlugins ==
    {NoHookPlugin,
     [id |-> "hooks",
      sec |-> [NoHookSection EXCEPT !.post_command = PyStr(<<"false">>),
                                    !.timeout = PyInt(10)]],
     [id |-> "hooks",
      sec |-> [NoHookSection EXCEPT !.pre_command = PyStr(<<"sed">>),
                                    !.post_command = PyStr(<<"false">>),
                                    !.strict_hooks = PyBool(TRUE)]],
     [id |-> "mdsf", sec |-> [NoHookSection EXCEPT !.post_command = PyStr(<<"false">>)]]}

\* context.options as the hooks plugin meets them, the options without an
\* "mdformat" key included
HookOptionSets ==
    [hasMdformat : {TRUE}, api : HookApiSections, plugin : HookPlugins]
    \cup {[hasMdformat |-> FALSE, api |-> NoHookSection, plugin |-> NoHookPlugin]}

\* the calls of _dynamic_postprocessor, each with the outcome a process would have
PostCalls ==
    [op : {"_dynamic_postprocessor"}, state : {"pending"}, text : Texts,
     node : NodeTypes, options : HookOptionSets, outcome : ProcessOutcomes(Texts),
     res : {NoResult}]

\* the formatting runs of the mdsf plugin: the options the host was given, and
\* the code block its renderer meets
RunCalls ==
    [op : {"run"}, state : {"start"}, options : RunOptions, unformatted : Texts,
     language : Languages, which : WhichResults, outcome : ProcessOutcomes(Texts),
     res : {NoResult}]

\* How the external command answers whatever it is given on stdin: it writes
\* its stdin back, appends to it, exits non-zero, runs past the timeout, or
\* cannot be run.
Worlds == {"identity", "append", "exit1", "timeout", "error"}

OutcomeOf(world, stdin) ==
    CASE world = "identity" ->
            [kind |-> "exit", code |-> 0, stdout |-> stdin, stderr |-> <<>>, err |-> NoExc]
      [] world = "append" ->
            [kind |-> "exit", code |-> 0, stdout |-> stdin \o <<"x">>, stderr |-> <<>>,
             err |-> NoExc]
      [] world = "exit1" ->
            [kind |-> "exit", code |-> 1, stdout |-> <<>>, stderr |-> <<"boom">>,
             err |-> NoExc]
      [] world = "timeout" ->
            [kind |-> "timeout", code |-> 0, stdout |-> <<>>, stderr |-> <<>>, err |-> NoExc]
      [] world = "error" ->
            [kind |-> "error", code |-> 0, stdout |-> <<>>, stderr |-> <<>>,
             err |-> SpawnError]

\* one pass of a plugin's transformation over x in a given world
Transform(c, fn, x, command, strict, language, which, world) ==
    IF fn = "_run_shell_command"
    THEN _run_shell_command(x, command, HookDefaultTimeout, strict, OutcomeOf(world, x))
    ELSE _format_code_with_mdsf(c, x, language, which,
                                OutcomeOf(world, MarkdownInput(x, language)))

\* a text about to be put through a transformation twice, in one world
TwiceCalls ==
    [op : {"twice"}, state : {"pending"}, fn : {"_run_shell_command"}, x : Texts,
     command : Commands, strict : BOOLEAN, language : {<<"python">>},
     which : {MdsfPath}, world : Worlds, first : {NoResult}, res : {NoResult}]
    \cup [op : {"twice"}, state : {"pending"}, fn : {"_format_code_with_mdsf"},
          x : Texts, command : {NoneCommand}, strict : {FALSE}, language : Languages,
          which : WhichResults, world : Worlds, first : {NoResult}, res : {NoResult}]

\* the calls of find_mdsf_config: the working directory, and the directories
\* of its chain that hold an mdsf.json
FindCalls ==
    [op : {"find_mdsf_config"}, state : {"pending"}, cwd : Depths,
     files : SUBSET Depths, current : {0}, res : {NoPath}]

---------------------------------------------------------------------------
(* The state machine *)

\* the process after import: the store holds the defaults, nothing was called
InitConfig ==
    /\ config = DefaultConfig
    /\ call = [op |-> "init", state |-> "done"]
    /\ calls = 0

\* the hooks plugin about to run a command
InitHooks ==
    /\ config = DefaultConfig
    /\ call \in ShellCalls
    /\ calls = 0

\* the mdsf plugin about to format a block, the store resolved for the run
InitMdsf ==
    /\ config \in ResolvedConfigs
    /\ call \in FormatCalls
    /\ calls = 0

\* the hooks plugin about to post-process a rendered node
InitPost ==
    /\ config = DefaultConfig
    /\ call \in PostCalls
    /\ calls = 0

\* the host about to format a document with the mdsf plugin, the store as the
\* import left it
InitRun ==
    /\ config = DefaultConfig
    /\ call \in RunCalls
    /\ calls = 0

\* a text about to pass twice through a plugin, the store resolved as for a run
InitTwice ==
    /\ config \in ResolvedConfigs
    /\ call \in TwiceCalls
    /\ calls = 0

\* find_mdsf_config about to search from the working directory
InitFind ==
    /\ config = DefaultConfig
    /\ call \in FindCalls
    /\ calls = 0

Init == InitConfig \/ InitHooks \/ InitMdsf \/ InitPost \/ InitRun \/ InitTwice
            \/ InitFind

\* the record of a completed call on the settings store
ConfigCall(op, options, environ, r) ==
    [op |-> op, state |-> "done", options |-> options, environ |-> environ,
     pre |-> config, exc |-> r.exc]

\* config.update_from_options(options) on the global store
UpdateFromOptions ==
    /\ call.state = "done"
    /\ calls < MaxCalls
    /\ \E options \in OptionSets :
          LET r == update_from_options(config, options) IN
          /\ config' = r.cfg
          /\ call' = ConfigCall("update_from_options", options, NoEnviron, r)
    /\ calls' = calls + 1

\* config.update_from_env() on the global store
UpdateFromEnv ==
    /\ call.state = "done"
    /\ calls < MaxCalls
    /\ \E environ \in Environs :
          LET r == update_from_env(config, environ) IN
          /\ config' = r.cfg
          /\ call' = ConfigCall("update_from_env", NoOptions, environ, r)
    /\ calls' = calls + 1

\* _setup_from_options(options): one configuration-resolution pass
SetupFromOptions ==
    /\ call.state = "done"
    /\ calls < MaxCalls
    /\ \E options \in OptionSets, environ \in Environs :
          LET r == _setup_from_options(config, options, environ) IN
          /\ config' = r.cfg
          /\ call' = ConfigCall("_setup_from_options", options, environ, r)
    /\ calls' = calls + 1

\* the pending call of _run_shell_command runs to its end
RunShellCommand ==
    /\ call.op = "_run_shell_command"
    /\ call.state = "pending"
    /\ call' = [call EXCEPT !.state = "done",
                            !.res = _run_shell_command(call.text, call.command,
                                        call.timeout, call.strict, call.outcome)]
    /\ calls' = calls + 1
    /\ UNCHANGED config

\* the pending call of _format_code_with_mdsf runs to its end
FormatCodeWithMdsf ==
    /\ call.op = "_format_code_with_mdsf"
    /\ call.state = "pending"
    /\ call' = [call EXCEPT !.state = "done",
                            !.res = _format_code_with_mdsf(config, call.unformatted,
                                        call.language, call.which, call.outcome)]
    /\ calls' = calls + 1
    /\ UNCHANGED config

\* the pending call of _dynamic_postprocessor runs to its end
DynamicPostprocessor ==
    /\ call.op = "_dynamic_postprocessor"
    /\ call.state = "pending"
    /\ call' = [call EXCEPT !.state = "done",
                            !.res = _dynamic_postprocessor(call.text, call.node,
                                        call.options, call.outcome)]
    /\ calls' = calls + 1
    /\ UNCHANGED config

\* the host builds its parser for the run: update_mdit of the mdsf plugin
UpdateMdit ==
    /\ call.op = "run"
    /\ call.state = "start"
    /\ config' = update_mdit(config, call.options)
    /\ call' = [call EXCEPT !.state = "rendering"]
    /\ UNCHANGED calls

\* the renderer meets the code block and calls the formatter of its language
Formatter ==
    /\ call.op = "run"
    /\ call.state = "rendering"
    /\ call' = [call EXCEPT !.state = "done",
                            !.res = formatter(config, call.language, call.unformatted,
                                              call.which, call.outcome)]
    /\ calls' = calls + 1
    /\ UNCHANGED config

\* the first pass: the transformation applied to the text
FirstPass ==
    /\ call.op = "twice"
    /\ call.state = "pending"
    /\ call' = [call EXCEPT !.state = "once",
                            !.first = Transform(config, call.fn, call.x, call.command,
                                          call.strict, call.language, call.which,
                                          call.world)]
    /\ calls' = calls + 1
    /\ UNCHANGED config

\* the second pass: the transformation applied to what the first pass returned
SecondPass ==
    /\ call.op = "twice"
    /\ call.state = "once"
    /\ call.first.kind = "return"
    /\ call' = [call EXCEPT !.state = "twice",
                            !.res = Transform(config, call.fn, call.first.value,
                                        call.command, call.strict, call.language,
                                        call.which, call.world)]
    /\ calls' = calls + 1
    /\ UNCHANGED config

NextTwice == FirstPass \/ SecondPass

\* current = Path.cwd()
FindStart ==
    /\ call.op = "find_mdsf_config"
    /\ call.state = "pending"
    /\ call' = [call EXCEPT !.state = "loop", !.current = call.cwd]
    /\ UNCHANGED <<config, calls>>

\* one turn of `while current != current.parent`
FindLoop ==
    /\ call.op = "find_mdsf_config"
    /\ call.state = "loop"
    /\ call.current # Parent(call.current)
    /\ call' = IF call.current \in call.files
               THEN [call EXCEPT !.state = "done", !.res = PathOf(call.current)]
               ELSE [call EXCEPT !.current = Parent(call.current)]
    /\ calls' = IF call.current \in call.files THEN calls + 1 ELSE calls
    /\ UNCHANGED config

\* the loop is left: return None
FindReturnNone ==
    /\ call.op = "find_mdsf_config"
    /\ call.state = "loop"
    /\ call.current = Parent(call.current)
    /\ call' = [call EXCEPT !.state = "done", !.res = NoPath]
    /\ calls' = calls + 1
    /\ UNCHANGED config

NextFind == FindStart \/ FindLoop \/ FindReturnNone

NextConfig == UpdateFromOptions \/ UpdateFromEnv \/ SetupFromOptions

NextRun == UpdateMdit \/ Formatter

Next == NextConfig \/ RunShellCommand \/ FormatCodeWithMdsf \/ DynamicPostprocessor
            \/ NextRun \/ NextTwice \/ NextFind

Spec == Init /\ [][Next]_vars

\* the settings store under every sequence of resolution calls
ConfigSpec == InitConfig /\ [][NextConfig]_vars

\* the hooks plugin: it never reads the mdsf settings store
HooksSpec == InitHooks /\ [][RunShellCommand]_vars

\* the mdsf plugin formatting a block
MdsfSpec == InitMdsf /\ [][FormatCodeWithMdsf]_vars

\* the hooks plugin post-processing a rendered node
PostSpec == InitPost /\ [][DynamicPostprocessor]_vars

\* a formatting run of the host with the mdsf plugin
RunSpec == InitRun /\ [][NextRun]_vars

\* every call, of either plugin, that may invoke an external process
NextInvoke == RunShellCommand \/ DynamicPostprocessor \/ FormatCodeWithMdsf \/ NextRun

\* the search for mdsf.json
FindSpec == InitFind /\ [][NextFind]_vars

\* a text put twice through the transformation of a plugin
TwiceSpec == InitTwice /\ [][NextTwice]_vars

InvokeSpec == (InitHooks \/ InitPost \/ InitMdsf \/ InitRun) /\ [][NextInvoke]_vars

---------------------------------------------------------------------------
(* Properties *)

\* a configuration-resolution pass has completed on a store at its defaults
PassFromDefaults ==
    /\ call.op = "_setup_from_options"
    /\ call.pre = DefaultConfig
    /\ call.exc = "None"

\* a field is given at a level when its key holds a value other than None
Given(v) == v.t # "none"

\* C1: after a resolution pass on a store at its defaults, every field given at
\* the API level has its API value, whatever the plugin options and the
\* environment give (API timeout 60, plugin 45, MDSF_TIMEOUT=10 yield 60).
C1_ApiLevelWins ==
    PassFromDefaults =>
        LET api == call.options.api IN
        /\ Given(api.config) => config.config_path = api.config
        /\ Given(api.timeout) => config.timeout = PyIntOf(api.timeout).v
        /\ Given(api.languages) => config.languages = PySetOf(api.languages).v
        /\ Given(api.fail_on_error) => config.fail_on_error = Truthy(api.fail_on_error)

\* _run_shell_command has returned or raised
ShellDone == call.op = "_run_shell_command" /\ call.state = "done"

\* ... after spawning a process that exited with a non-zero code
ShellExitedNonZero ==
    /\ ShellDone
    /\ CommandTruthy(call.command)
    /\ call.outcome.kind = "exit"
    /\ call.outcome.code # 0

\* C2: a command that exits non-zero: strict=False returns the original text;
\* strict=True raises the command-failed RuntimeError, whose message holds the
\* exit code and the command, and no other error reaches the caller.
C2_NonZeroExit ==
    ShellExitedNonZero =>
        IF call.strict
        THEN /\ call.res.kind = "raise"
             /\ call.res.exc.type = "RuntimeError"
             /\ call.res.exc.cause = "None"
             /\ Head(call.res.exc.msg) = "Command failed with exit code "
             /\ Contains(call.res.exc.msg, Str(call.outcome.code))
             /\ Contains(call.res.exc.msg, call.command.s)
        ELSE /\ call.res.kind = "return"
             /\ call.res.value = call.text

C2_Witness ==
    /\ ShellExitedNonZero
    /\ call.strict
    /\ call.res.kind = "raise"
    /\ call.command.s = <<"false">>
    /\ call.outcome.code = 1

\* ... after spawning a process that ran past the timeout
ShellTimedOut ==
    /\ ShellDone
    /\ CommandTruthy(call.command)
    /\ call.outcome.kind = "timeout"

\* C3: a command that exceeds the timeout: strict=False returns the original
\* text; strict=True raises RuntimeError "Command timed out ...".
C3_Timeout ==
    ShellTimedOut =>
        IF call.strict
        THEN /\ call.res.kind = "raise"
             /\ call.res.exc.type = "RuntimeError"
             /\ Head(call.res.exc.msg) = "mdformat-hooks: Command timed out after "
        ELSE /\ call.res.kind = "return"
             /\ call.res.value = call.text

C3_Witness ==
    /\ ShellTimedOut
    /\ call.strict
    /\ call.res.kind = "raise"
    /\ call.text # <<>>

\* _format_code_with_mdsf has returned or raised
FormatDone == call.op = "_format_code_with_mdsf" /\ call.state = "done"

\* ... and neither the empty-code guard nor the language filter ended it
FormatAttempted ==
    /\ FormatDone
    /\ call.unformatted # <<>>
    /\ is_language_enabled(config, call.language)

BinaryMissing == call.which.t = "none"

\* the three failure classes of the formatter
FormatFailed ==
    /\ FormatAttempted
    /\ \/ BinaryMissing
       \/ call.outcome.kind = "exit" /\ call.outcome.code # 0
       \/ call.outcome.kind = "timeout"

\* C4: binary missing, non-zero exit and timeout are handled alike: with
\* fail_on_error=False the unformatted code is returned, with fail_on_error=True
\* a RuntimeError is raised.
C4_FailureClasses ==
    FormatFailed =>
        IF config.fail_on_error
        THEN call.res.kind = "raise" /\ call.res.exc.type = "RuntimeError"
        ELSE call.res.kind = "return" /\ call.res.value = call.unformatted

C4_Witness ==
    /\ FormatFailed
    /\ ~BinaryMissing
    /\ call.outcome.kind = "timeout"
    /\ config.fail_on_error
    /\ call.res.kind = "raise"

\* C5: in non-strict mode no outcome of the external invocation (non-zero exit,
\* timeout, missing binary, any other invocation error) makes the call raise;
\* a failed invocation returns the original text.
C5_NonStrictNeverRaises ==
    /\ (ShellDone /\ ~call.strict) =>
          /\ call.res.kind = "return"
          /\ call.res.value \in {call.text, call.outcome.stdout}
    /\ (FormatDone /\ ~config.fail_on_error) =>
          /\ call.res.kind = "return"
          /\ (BinaryMissing \/ call.outcome.kind # "exit" \/ call.outcome.code # 0)
                => call.res.value = call.unformatted

\* C6: a non-empty command whose process exits with code 0: the captured
\* standard output is returned exactly, for strict=False and strict=True.
C6_SuccessReturnsStdout ==
    (ShellDone /\ CommandTruthy(call.command)
        /\ call.outcome.kind = "exit" /\ call.outcome.code = 0) =>
        /\ call.res.kind = "return"
        /\ call.res.value = call.outcome.stdout

C6_Witness ==
    /\ ShellDone
    /\ CommandTruthy(call.command)
    /\ call.outcome.kind = "exit" /\ call.outcome.code = 0
    /\ call.strict
    /\ call.text # <<>>
    /\ call.outcome.stdout = <<>>
    /\ call.res.value = <<>>

\* C7: a None or empty command: the text is returned unchanged, nothing is
\* raised, no process is spawned.
C7_NoCommandNoOp ==
    (ShellDone /\ (call.command.isNone \/ call.command.s = <<>>)) =>
        /\ call.res.kind = "return"
        /\ call.res.value = call.text
        /\ call.res.spawns = <<>>

C7_Witness ==
    /\ ShellDone
    /\ ~call.command.isNone
    /\ call.command.s = <<>>
    /\ call.strict
    /\ call.text # <<>>
    /\ call.res.value = call.text

\* ... after an invocation error that is neither a non-zero exit nor a timeout
ShellOtherError ==
    /\ ShellDone
    /\ CommandTruthy(call.command)
    /\ call.outcome.kind = "error"

FilteredOut ==
    /\ FormatDone
    /\ config.languages # {}
    /\ call.language \notin config.languages

\* C9: a language outside a non-empty allow-list: the code is returned unchanged
\* before any binary lookup or spawn, also with the binary missing and
\* fail_on_error true; with an empty allow-list, or a listed language, a
\* non-empty block goes on to the binary lookup.
C9_LanguageFilter ==
    /\ FilteredOut =>
          /\ call.res.kind = "return"
          /\ call.res.value = call.unformatted
          /\ call.res.lookups = 0
          /\ call.res.spawns = <<>>
    /\ (FormatDone /\ call.unformatted # <<>>
            /\ (config.languages = {} \/ call.language \in config.languages))
          => call.res.lookups = 1

C9_Witness ==
    /\ FilteredOut
    /\ config.languages = {<<"python">>}
    /\ call.language = <<"javascript">>
    /\ call.unformatted # <<>>
    /\ BinaryMissing
    /\ config.fail_on_error
    /\ call.res.kind = "return"

\* C10: empty code is returned unchanged without a binary lookup or a spawn,
\* for every language and every settings value.
C10_EmptyCode ==
    (FormatDone /\ call.unformatted = <<>>) =>
        /\ call.res.kind = "return"
        /\ call.res.value = <<>>
        /\ call.res.lookups = 0
        /\ call.res.spawns = <<>>

C10_Witness ==
    /\ FormatDone
    /\ call.unformatted = <<>>
    /\ BinaryMissing
    /\ config.fail_on_error
    /\ config.languages = {<<"python">>}
    /\ call.language = <<"javascript">>
    /\ call.res.kind = "return"

\* the formatter process exited with code 0
FormatSucceeded ==
    /\ FormatAttempted
    /\ ~BinaryMissing
    /\ call.outcome.kind = "exit"
    /\ call.outcome.code = 0

\* ... and wrote back exactly the fenced block it was given
FormatEchoed ==
    /\ FormatSucceeded
    /\ call.outcome.stdout = MarkdownInput(call.unformatted, call.language)

\* C11: fence round trip: when the formatter process echoes the fenced block it
\* was given, _format_code_with_mdsf returns exactly the original code, for
\* every non-empty code and language; the result ends with a newline exactly
\* when the original does.
C11_FenceRoundTrip ==
    FormatEchoed =>
        /\ call.res.kind = "return"
        /\ call.res.value = call.unformatted
        /\ EndsWithNewline(call.res.value) <=> EndsWithNewline(call.unformatted)

C11_Witness ==
    /\ FormatEchoed
    /\ call.unformatted = <<Fence, "\n">>
    /\ call.language = <<"python">>
    /\ call.res.value = <<Fence, "\n">>

\* C12: whenever _format_code_with_mdsf returns, on success with any output of
\* the process (empty and fence-less output included) and on every fallback,
\* a result for an original that ends with a newline ends with a newline.
C12_TrailingNewlineKept ==
    (FormatDone /\ call.res.kind = "return" /\ EndsWithNewline(call.unformatted))
        => EndsWithNewline(call.res.value)

C12_Witness ==
    /\ FormatSucceeded
    /\ call.unformatted = <<"x", "\n">>
    /\ call.outcome.stdout = <<>>
    /\ call.res.kind = "return"
    /\ call.res.value = <<"\n">>

\* a completed call of update_from_env on the store
EnvCallDone == call.op = "update_from_env" /\ call.state = "done"

\* int() accepts the value: an int, or a string of digits with an optional sign
IsInteger(v) == PyIntOf(v).ok

\* C17: update_from_env with an MDSF_TIMEOUT that is no integer raises nothing
\* and leaves the timeout as it was; with neither variable set it leaves
\* config_path and timeout as they were; it never changes the language
\* allow-list or fail_on_error.
C17_EnvTolerant ==
    EnvCallDone =>
        /\ call.exc = "None"
        /\ config.languages = call.pre.languages
        /\ config.fail_on_error = call.pre.fail_on_error
        /\ (Given(call.environ.MDSF_TIMEOUT) /\ ~IsInteger(call.environ.MDSF_TIMEOUT))
              => config.timeout = call.pre.timeout
        /\ call.environ = NoEnviron
              => /\ config.config_path = call.pre.config_path
                 /\ config.timeout = call.pre.timeout

C17_Witness ==
    /\ EnvCallDone
    /\ call.environ.MDSF_TIMEOUT = PyStr(<<"invalid">>)
    /\ call.pre.timeout = 60
    /\ call.pre.languages # {}
    /\ config.timeout = 60

\* a configuration-resolution pass has run to its end, from any store
PassDone ==
    /\ call.op = "_setup_from_options"
    /\ call.state = "done"
    /\ call.exc = "None"

\* the store as the options of the pass leave it, before the environment is read
AfterOptions ==
    update_from_options(CliStep(call.pre, call.options.flat), call.options).cfg

\* C14: the environment has the lowest precedence: in a resolution pass
\* MDSF_CONFIG and MDSF_TIMEOUT fill config_path and timeout only when the API
\* or plugin options did not set that field; a field set by the options has
\* the same value after update_from_env as before it.
C14_EnvOnlyFills ==
    PassDone =>
        LET api == call.options.api
            po == PluginOpts(call.options, "mdsf", "")
        IN  /\ (Given(api.config) \/ Given(po.config))
                  => config.config_path = AfterOptions.config_path
            /\ (Given(api.timeout) \/ Given(po.timeout))
                  => config.timeout = AfterOptions.timeout

\* C15: malformed configuration is never fatal: update_from_options,
\* update_from_env and _setup_from_options complete without raising for every
\* options structure, a timeout that is no integer included.
C15_MalformedNeverFatal ==
    (call.op \in {"update_from_options", "update_from_env", "_setup_from_options"}
        /\ call.state = "done")
        => call.exc = "None"

\* C16: in every reachable state of the settings store, whatever integer or
\* integer-string timeouts the three operations were given (zero and negative
\* ones included), the timeout is greater than zero.
C16_TimeoutPositive == config.timeout > 0

\* the formatter of a run has returned or raised
RunDone == call.op = "run" /\ call.state = "done"

\* C13: every per-block formatter call of a run uses settings resolved from the
\* options of that run: the resolution pass is applied to the store before the
\* first process of the run, so a language outside the run's mdsf_languages is
\* not handed to a process, and every process of the run is given the run's
\* mdsf_timeout.
C13_RunOptionsInEffect ==
    RunDone =>
        LET api == call.options.api IN
        /\ (Given(api.languages) /\ call.language \notin PySetOf(api.languages).v)
              => call.res.spawns = <<>>
        /\ Given(api.timeout)
              => \A k \in DOMAIN call.res.spawns :
                    call.res.spawns[k].timeout = PyIntOf(api.timeout).v

\* _dynamic_postprocessor has returned or raised
PostDone == call.op = "_dynamic_postprocessor" /\ call.state = "done"

\* the command the options give under a key, None and "" being no command
Configured(key) == Truthy(get_conf(call.options, key))

\* the post-processor was called on the document root
OnDocument == PostDone /\ call.node = "document"

C19_DocumentRootOnly ==
    /\ (PostDone /\ call.node # "document")
          => /\ call.res.kind = "return"
             /\ call.res.value = call.text
             /\ call.res.spawns = <<>>
    /\ (PostDone /\ ~call.options.hasMdformat)
          => /\ call.res.kind = "return"
             /\ call.res.value = call.text
    /\ (PostDone /\ call.options.api.post_command.t = "none"
            /\ (call.options.plugin.id # HooksPluginName
                    \/ call.options.plugin.sec.post_command.t = "none"))
          => /\ call.res.kind = "return"
             /\ call.res.value = call.text
    /\ (PostDone /\ call.options.api.post_command = PyStr(<<>>))
          => /\ call.res.kind = "return"
             /\ call.res.value = call.text

C19_Witness ==
    /\ PostDone
    /\ call.node = "paragraph"
    /\ call.options.api.post_command = PyStr(<<"cat">>)
    /\ call.text = <<"x">>
    /\ call.outcome.kind = "exit"
    /\ call.outcome.code = 0
    /\ call.outcome.stdout = <<"\n">>
    /\ call.res.value = <<"x">>
    /\ call.res.spawns = <<>>

\* C20: every invocation failure is reported on the diagnostic channel before
\* the fallback is returned or the error raised: in the hooks plugin a non-zero
\* exit, a timeout and any other error; in the mdsf formatter a missing binary,
\* a non-zero exit and a timeout.
C20_FailuresReported ==
    /\ (ShellExitedNonZero \/ ShellTimedOut \/ ShellOtherError) => call.res.diag # <<>>
    /\ FormatFailed => call.res.diag # <<>>

\* C21: no retries: for every outcome of the process, one call of
\* _run_shell_command, of the post processor or of _format_code_with_mdsf spawns
\* the external process at most once, and exactly once when a command is
\* configured and no skip condition (empty code, filtered language, binary
\* missing, node other than the document) applies; the call then returns once
\* or raises once.
C21_NoRetries ==
    /\ ShellDone =>
          /\ Len(call.res.spawns) <= 1
          /\ CommandTruthy(call.command) => Len(call.res.spawns) = 1
          /\ call.res.kind \in {"return", "raise"}
    /\ PostDone =>
          /\ Len(call.res.spawns) <= 1
          /\ (OnDocument /\ Configured("post_command")
                  /\ IsInteger(_create_post_processor(call.options).timeout))
                => Len(call.res.spawns) = 1
          /\ call.res.kind \in {"return", "raise"}
    /\ (FormatDone \/ RunDone) =>
          /\ Len(call.res.spawns) <= 1
          /\ (call.unformatted # <<>> /\ is_language_enabled(config, call.language)
                  /\ ~BinaryMissing)
                => Len(call.res.spawns) = 1
          /\ call.res.kind \in {"return", "raise"}

C21_Witness ==
    /\ ShellTimedOut
    /\ ~call.strict
    /\ Len(call.res.spawns) = 1
    /\ call.res.kind = "return"
    /\ call.res.value = call.text

\* _format_code_with_mdsf has spawned the formatter
FormatSpawned == FormatDone /\ call.res.spawns # <<>>

\* C22: when _format_code_with_mdsf spawns the formatter, the argument list is
\* exactly [mdsf binary, "format", "--stdin"], followed by ["--config",
\* config_path] if and only if the store holds a config path; the timeout is
\* the store's timeout; stdin is the code as one fenced block tagged with the
\* block's language.
C22_Invocation ==
    FormatSpawned =>
        LET spawn == call.res.spawns[1]
            base == <<call.which.s, <<"format">>, <<"--stdin">>>>
        IN  /\ ~spawn.shell
            /\ SubSeq(spawn.argv, 1, 3) = base
            /\ config.config_path.t = "none" => spawn.argv = base
            /\ config.config_path.t # "none"
                  => spawn.argv = base \o <<<<"--config">>, config.config_path.s>>
            /\ spawn.timeout = config.timeout
            /\ spawn.input = <<Fence>> \o call.language \o <<"\n">> \o call.unformatted
                                 \o <<"\n", Fence, "\n">>

C22_Witness ==
    /\ FormatSpawned
    /\ config.config_path = PyStr(<<"/path/to/config.json">>)
    /\ config.timeout = 5
    /\ call.language = <<"python">>
    /\ call.unformatted = <<"x">>
    /\ call.res.spawns[1].argv =
          <<<<"/usr/bin/mdsf">>, <<"format">>, <<"--stdin">>, <<"--config">>,
            <<"/path/to/config.json">>>>
    /\ call.res.spawns[1].timeout = 5

\* a completed call of update_from_options on the store
OptionsCallDone == call.op = "update_from_options" /\ call.state = "done"

\* C23: update_from_options on options whose plugin section is nested under
\* the identifier "mdformat_mdsf" and uses the keys mdsf_config, mdsf_timeout,
\* mdsf_languages and mdsf_fail_on_error sets the four fields to the values
\* given ("/path/to/plugin.json", 45, {rust, go}, True).
C23_PluginSectionRead ==
    (OptionsCallDone /\ call.exc = "None"
        /\ call.options.hasMdformat
        /\ call.options.api = NoSection
        /\ call.options.plugin.id = "mdformat_mdsf"
        /\ call.options.plugin.prefix = "mdsf_")
        => LET sec == call.options.plugin.sec IN
           /\ Truthy(sec.config) => config.config_path = sec.config
           /\ Truthy(sec.timeout) => config.timeout = PyIntOf(sec.timeout).v
           /\ Truthy(sec.languages) => config.languages = PySetOf(sec.languages).v
           /\ Truthy(sec.fail_on_error) => config.fail_on_error

StoreCallDone ==
    /\ call.op \in {"update_from_options", "update_from_env", "_setup_from_options"}
    /\ call.state = "done"

\* the options of the call omit the key at every level, or give it a falsy value
Quiet(key) ==
    /\ ~Truthy(call.options.flat[key])
    /\ ~Truthy(call.options.api[key])
    /\ ~Truthy(call.options.plugin.sec[key])

\* C27: the store is updated, never reset: after every call of
\* update_from_options, update_from_env or _setup_from_options, from any earlier
\* state of the store, a field that the options omit or give as False, 0, []
\* or "" (and, for config_path and timeout, whose environment variable is not
\* set) has the value it had before; so a true fail_on_error stays true, a
\* non-empty allow-list stays non-empty and a set config_path stays set.
C27_NeverReset ==
    StoreCallDone =>
        /\ (Quiet("config") /\ ~Truthy(call.environ.MDSF_CONFIG))
              => config.config_path = call.pre.config_path
        /\ (Quiet("timeout") /\ ~Truthy(call.environ.MDSF_TIMEOUT))
              => config.timeout = call.pre.timeout
        /\ Quiet("languages") => config.languages = call.pre.languages
        /\ Quiet("fail_on_error") => config.fail_on_error = call.pre.fail_on_error
        /\ call.pre.fail_on_error => config.fail_on_error
        /\ call.pre.languages # {} => config.languages # {}
        /\ call.pre.config_path.t # "none" => config.config_path.t # "none"

C27_Witness ==
    /\ StoreCallDone
    /\ call.op = "_setup_from_options"
    /\ call.options.api = FalsySection
    /\ call.options.plugin.sec = FalsySection
    /\ call.pre.fail_on_error
    /\ call.pre.languages = {<<"python">>, <<"javascript">>}
    /\ call.pre.config_path = PyStr(<<"/path/to/config.json">>)
    /\ call.pre.timeout = 60
    /\ config = call.pre

\* the value the precedence order gives a hooks key: the API-level value when
\* one is given, else the value of the plugin's section, else the default
Resolved(key, default) ==
    LET api == call.options.api[key]
        plugin == call.options.plugin
    IN  IF Given(api) THEN api
        ELSE IF plugin.id = HooksPluginName /\ Given(plugin.sec[key]) THEN plugin.sec[key]
        ELSE default

\* C25: in the hooks plugin post_command, timeout and strict_hooks each resolve
\* to the API-level value when one is given, else to the plugin-namespaced
\* value, else to the default (no command, 30 seconds, not strict), also when
\* the API-level value is 0, False or "": the command run, the timeout handed
\* to the process and the strictness of the call are the resolved ones.
C25_HooksPrecedence ==
    (OnDocument /\ call.options.hasMdformat) =>
        /\ call.res.spawns # <<>> <=> Truthy(Resolved("post_command", PyNone))
        /\ call.res.spawns # <<>> =>
              /\ call.res.spawns[1].argv = <<Resolved("post_command", PyNone).s>>
              /\ call.res.spawns[1].timeout =
                    PyIntOf(Resolved("timeout", PyInt(30))).v
              /\ (call.outcome.kind = "exit" /\ call.outcome.code # 0)
                    => (call.res.kind = "raise"
                            <=> Truthy(Resolved("strict_hooks", PyBool(FALSE))))

\* both passes of a transformation have returned or raised
TwiceDone == call.op = "twice" /\ call.state = "twice"

\* the identity and no-op configurations: no command; the command or the
\* formatter unavailable or failing, in non-strict mode; the command or the
\* formatter writing back what it was given
NoOpConfiguration ==
    IF call.fn = "_run_shell_command"
    THEN \/ ~CommandTruthy(call.command)
         \/ call.world \in {"exit1", "timeout", "error"} /\ ~call.strict
         \/ call.world = "identity"
    ELSE \/ call.which.t = "none" /\ ~config.fail_on_error
         \/ call.world \in {"exit1", "timeout"} /\ ~config.fail_on_error
         \/ call.world = "identity"

\* C26: idempotence under the identity and no-op configurations: the
\* transformation of a plugin (_run_shell_command, _format_code_with_mdsf)
\* applied to its own output returns that output again, f(f(x)) = f(x).
C26_Idempotent ==
    (TwiceDone /\ NoOpConfiguration) =>
        /\ call.res.kind = "return"
        /\ call.res.value = call.first.value

C26_Witness ==
    /\ TwiceDone
    /\ call.fn = "_format_code_with_mdsf"
    /\ call.world = "identity"
    /\ call.x = <<"x", "\n">>
    /\ call.first.spawns # <<>>
    /\ call.res.spawns # <<>>
    /\ call.res.value = <<"x", "\n">>

\* C28: with the store at its defaults the formatter that knows no settings
\* store and the formatter that reads it are equivalent: for every code,
\* language and outcome (binary missing, non-zero exit, timeout, success with
\* any output) both return the same string or both raise.
C28_FormattersEquivalent ==
    (FormatDone /\ config = DefaultConfig /\ call.outcome.kind # "error") =>
        LET plain == mdformat_mdformat_mdsf_format_code_with_mdsf(
                         call.unformatted, call.language, call.which, call.outcome)
        IN  /\ plain.kind = call.res.kind
            /\ plain.kind = "return" => plain.value = call.res.value

\* find_mdsf_config has returned
FindDone == call.op = "find_mdsf_config" /\ call.state = "done"

\* the directories from the working directory up to and including the root
\* that hold an mdsf.json
OnChain == {d \in 0..call.cwd : d \in call.files}

\* C29: find_mdsf_config returns the mdsf.json of the nearest directory that
\* holds one, from the working directory up through every ancestor to the
\* filesystem root included, and None exactly when no directory of that chain
\* holds one.
C29_FindNearest ==
    FindDone =>
        IF OnChain = {} THEN call.res.isNone
        ELSE /\ ~call.res.isNone
             /\ call.res.dir \in OnChain
             /\ \A d \in OnChain : d <= call.res.dir

====
